---- MODULE Spec2Model ----
\* KuCoinDataFetcher.get_combined_data (src/kucoin_historical_data_dumper.py):
\* one call of the parallel fetch-and-combine pipeline, with the worker
\* threads of the ThreadPoolExecutor interleaved with the calling thread.
EXTENDS Integers, Sequences, FiniteSets, Bags, TLC

\* ------------------------------------------------------------------ bounds
MaxLen == 2        \* longest date list (caller's list, enumerator's listing)
MaxRows == 1       \* most rows in one day's CSV
MaxWorkers == 2    \* threads of the pool (max_workers of ThreadPoolExecutor())

Dates == {"2024-07-01", "2024-07-02"}

\* ------------------------------------------------------------- value shapes
None == <<"None">>                \* dates=None (the parameter's default)
Unbound == <<"unbound">>          \* a local that no line has assigned yet

RECURSIVE SeqUpTo(_, _)
SeqUpTo(S, n) ==
    IF n = 0 THEN {<<>>}
    ELSE LET shorter == SeqUpTo(S, n - 1)
         IN  shorter \cup {Append(s, x) : s \in {t \in shorter : Len(t) = n - 1}, x \in S}

Range(s) == {s[i] : i \in DOMAIN s}

\* What a future holds: nothing yet, None, a DataFrame of `rows` rows, or the
\* exception download_and_process raised.
NoResult == [kind |-> "unset", rows |-> 0]
NoneResult == [kind |-> "None", rows |-> 0]
ExcResult == [kind |-> "exception", rows |-> 0]
DataFrame(n) == [kind |-> "DataFrame", rows |-> n]

\* What the outside world answers to one fetch: the HTTP status (0: requests.get
\* itself raised), whether the payload is a readable zip with a CSV, the CSV's
\* row count, and whether the write to disk goes through.
ConnError == 0
NoResponse == [status |-> -1, zip_ok |-> TRUE, rows |-> 0, disk_ok |-> TRUE]
Responses(save) ==
    {[status |-> ConnError, zip_ok |-> TRUE, rows |-> 0, disk_ok |-> TRUE],
     [status |-> 404, zip_ok |-> TRUE, rows |-> 0, disk_ok |-> TRUE],
     [status |-> 200, zip_ok |-> FALSE, rows |-> 0, disk_ok |-> TRUE]}
    \cup {[status |-> 200, zip_ok |-> TRUE, rows |-> n, disk_ok |-> d] :
             n \in 0..MaxRows, d \in IF save THEN BOOLEAN ELSE {TRUE}}

LogRecord(level, date) == [level |-> level, date |-> date]
NoDate == "-"

\* The value get_combined_data hands back: nothing yet, a DataFrame whose rows
\* are <<future, index in that future's table>>, or an exception.
NoReturn == [kind |-> "running", rows |-> <<>>]
Raised == [kind |-> "exception", rows |-> <<>>]
Frame(rows) == [kind |-> "DataFrame", rows |-> rows]

\* -------------------------------------------------------------------- state
VARIABLES
    pc,               \* where the calling thread of get_combined_data is
    requested,        \* the caller's own `dates` argument (None or its list)
    dates,            \* the parameter `dates`, rebound at lines 156/159
    save_to_disk,     \* the parameter
    available_dates,  \* the local of line 158
    futures,          \* future_to_date: one [date, state, result] per submit
    response,         \* what the world answered to each future's fetch
    yielded,          \* futures as_completed has handed to the loop body
    all_data,         \* the list of line 165
    log,              \* WARNING and ERROR records of LOGGER, a bag
    disk,             \* dates whose CSV file is on disk
    ret               \* what the call returned or raised

vars == <<pc, requested, dates, save_to_disk, available_dates, futures, response, yielded,
          all_data, log, disk, ret>>

\* ---------------------------------------------------------- pure functions
\* line 159: [date for date in dates if date in available_dates]
filter_dates_unfiltered(ds, avail) == ds
filter_dates(ds, avail) == SelectSeq(ds, LAMBDA d : d \in Range(avail))

\* lines 171-187: the value download_and_process returns or raises
fetch_result(r, save) ==
    IF r.status = ConnError THEN ExcResult
    ELSE IF r.status # 200 THEN NoneResult
    ELSE IF ~r.zip_ok THEN ExcResult
    ELSE IF save /\ ~r.disk_ok THEN ExcResult
    ELSE DataFrame(r.rows)

\* lines 197-199: df = future.result(); if df is not None: all_data.append(df)
append_result_unchecked(all, f, r) ==
    IF r.kind # "exception" THEN Append(all, [src |-> f, rows |-> r.rows]) ELSE all
append_result(all, f, r) ==
    IF r.kind = "DataFrame" THEN Append(all, [src |-> f, rows |-> r.rows]) ELSE all

\* lines 200-201: except Exception as e: LOGGER.error(...)
log_exception_silent(lg, d, r) == lg
log_exception(lg, d, r) ==
    IF r.kind = "exception" THEN lg (+) SetToBag({LogRecord("ERROR", d)}) ELSE lg

\* line 205: pd.concat(all_data, ignore_index=True)
RECURSIVE concat(_)
concat(all) ==
    IF all = <<>> THEN <<>>
    ELSE [i \in 1..Head(all).rows |-> <<Head(all).src, i>>] \o concat(Tail(all))

\* lines 203-210
combine_first_only(all) ==
    IF all # <<>> THEN Frame(concat(<<Head(all)>>)) ELSE Frame(<<>>)
combine_no_guard(all) == IF all # <<>> THEN Frame(concat(all)) ELSE Raised
combine(all) == IF all # <<>> THEN Frame(concat(all)) ELSE Frame(<<>>)

\* line 193: the for loop over as_completed ends when every future was yielded
as_completed_first(fs, ys) == ys # {}
as_completed_until_failure(fs, ys) ==
    ys = DOMAIN fs \/ \E f \in ys : fs[f].result.kind # "DataFrame"
as_completed_exhausted(fs, ys) == ys = DOMAIN fs

Running(fs) == {f \in DOMAIN fs : fs[f].state = "RUNNING"}
Pending(fs) == {f \in DOMAIN fs : fs[f].state = "PENDING"}

\* --------------------------------------------------------------------- Init
Init ==
    /\ pc = "start"
    /\ requested \in {None} \cup SeqUpTo(Dates, MaxLen)
    /\ dates = requested
    /\ save_to_disk \in BOOLEAN
    /\ available_dates = Unbound
    /\ futures = <<>>
    /\ response = <<>>
    /\ yielded = {}
    /\ all_data = <<>>
    /\ log = EmptyBag
    /\ disk = {}
    /\ ret = NoReturn

\* ------------------------------------------------------------------ actions
\* lines 155-165: enumerate, filter, return early on an empty list
GetDatesRaises ==
    /\ pc = "start"
    /\ pc' = "raised"
    /\ ret' = Raised
    /\ UNCHANGED <<requested, dates, save_to_disk, available_dates, futures, response,
                   yielded, all_data, log, disk>>

GetDates ==
    /\ pc = "start"
    /\ \E listing \in SeqUpTo(Dates, MaxLen) :
         /\ dates' = IF dates = None THEN listing ELSE filter_dates(dates, listing)
         /\ available_dates' = IF dates = None THEN Unbound ELSE listing
    /\ IF dates' = <<>>
         THEN /\ log' = log (+) SetToBag({LogRecord("WARNING", NoDate)})
              /\ ret' = Frame(<<>>)
              /\ pc' = "done"
         ELSE /\ pc' = "submit"
              /\ UNCHANGED <<log, ret>>
    /\ UNCHANGED <<requested, save_to_disk, futures, response, yielded, all_data, disk>>

\* lines 190-192: one executor.submit per element of dates
Submit ==
    /\ pc = "submit"
    /\ futures' = [i \in 1..Len(dates) |->
                      [date |-> dates[i], state |-> "PENDING", result |-> NoResult]]
    /\ response' = [i \in 1..Len(dates) |-> NoResponse]
    /\ pc' = "collect"
    /\ UNCHANGED <<requested, dates, save_to_disk, available_dates, yielded, all_data, log,
                   disk, ret>>

\* a pool thread takes the oldest work item off the executor's queue
StartWorker(f) ==
    /\ f \in Pending(futures)
    /\ \A g \in Pending(futures) : f <= g
    /\ Cardinality(Running(futures)) < MaxWorkers
    /\ futures' = [futures EXCEPT ![f].state = "RUNNING"]
    /\ UNCHANGED <<pc, requested, dates, save_to_disk, available_dates, response, yielded,
                   all_data, log, disk, ret>>

\* lines 167-187, on a pool thread
download_and_process_appending(f) ==
    /\ f \in Running(futures)
    /\ \E r \in Responses(save_to_disk) :
         /\ response' = [response EXCEPT ![f] = r]
         /\ futures' = [futures EXCEPT ![f].state = "FINISHED",
                                       ![f].result = fetch_result(r, save_to_disk)]
         /\ log' = IF r.status # ConnError /\ r.status # 200
                     THEN log (+) SetToBag({LogRecord("ERROR", futures[f].date)})
                     ELSE log
         /\ disk' = IF r.status = 200 /\ r.zip_ok /\ save_to_disk /\ r.disk_ok
                      THEN disk \cup {futures[f].date}
                      ELSE disk
         /\ all_data' = append_result(all_data, f, fetch_result(r, save_to_disk))
    /\ UNCHANGED <<pc, requested, dates, save_to_disk, available_dates, yielded, ret>>

download_and_process(f) ==
    /\ f \in Running(futures)
    /\ \E r \in Responses(save_to_disk) :
         /\ response' = [response EXCEPT ![f] = r]
         /\ futures' = [futures EXCEPT ![f].state = "FINISHED",
                                       ![f].result = fetch_result(r, save_to_disk)]
         /\ log' = IF r.status # ConnError /\ r.status # 200
                     THEN log (+) SetToBag({LogRecord("ERROR", futures[f].date)})
                     ELSE log
         /\ disk' = IF r.status = 200 /\ r.zip_ok /\ save_to_disk /\ r.disk_ok
                      THEN disk \cup {futures[f].date}
                      ELSE disk
    /\ UNCHANGED <<pc, requested, dates, save_to_disk, available_dates, yielded, all_data, ret>>

\* lines 193-201: as_completed yields a finished future; the loop body
Collect(f) ==
    /\ pc = "collect"
    /\ f \in DOMAIN futures
    /\ f \notin yielded
    /\ futures[f].state = "FINISHED"
    /\ yielded' = yielded \cup {f}
    /\ all_data' = append_result(all_data, f, futures[f].result)
    /\ log' = log_exception(log, futures[f].date, futures[f].result)
    /\ UNCHANGED <<pc, requested, dates, save_to_disk, available_dates, futures, response,
                   disk, ret>>

\* lines 203-210, once the loop and the with block are left
Combine ==
    /\ pc = "collect"
    /\ as_completed_exhausted(futures, yielded)
    /\ ret' = combine(all_data)
    /\ pc' = IF ret'.kind = "exception" THEN "raised" ELSE "done"
    /\ log' = IF all_data # <<>> THEN log
              ELSE log (+) SetToBag({LogRecord("WARNING", NoDate)})
    /\ UNCHANGED <<requested, dates, save_to_disk, available_dates, futures, response,
                   yielded, all_data, disk>>

Next ==
    \/ GetDatesRaises
    \/ GetDates
    \/ Submit
    \/ \E f \in DOMAIN futures : StartWorker(f)
    \/ \E f \in DOMAIN futures : download_and_process(f)
    \/ \E f \in DOMAIN futures : Collect(f)
    \/ Combine

Spec == Init /\ [][Next]_vars

\* The calling thread runs whenever it can; a worker's network call may hang.
FairSpec ==
    /\ Spec
    /\ WF_vars(Submit)
    /\ WF_vars(\E f \in DOMAIN futures : Collect(f))
    /\ WF_vars(Combine)

\* ------------------------------------------------------- derived quantities
Returned == pc \in {"done", "raised"}
Dispatched == futures # <<>>
Failed(f) == futures[f].result.kind \in {"None", "exception"}
Succeeded(f) == futures[f].result.kind = "DataFrame"
ErrorsFor(d) == CopiesIn(LogRecord("ERROR", d), log)
ErrorCount == BagCardinality(log) - CopiesIn(LogRecord("WARNING", NoDate), log)
Collected(f) == {i \in DOMAIN all_data : all_data[i].src = f}

RECURSIVE SumRows(_)
SumRows(S) ==
    IF S = {} THEN 0
    ELSE LET f == CHOOSE x \in S : TRUE
         IN  futures[f].result.rows + SumRows(S \ {f})

\* ------------------------------------------------------------------- claims
\* C1: when the call returns, every dispatched fetch has exactly one outcome,
\* its table collected (success) or an ERROR record (failure), so successes +
\* failures = the length of the effective request list; the call raises only
\* before anything was dispatched, never because of a fetch.
C1_OneOutcomePerDate ==
    /\ (pc = "raised" => ~Dispatched)
    /\ (pc = "done" =>
          /\ Len(all_data) + ErrorCount = Len(dates)
          /\ \A f \in DOMAIN futures :
                Cardinality(Collected(f)) + (IF Failed(f) THEN 1 ELSE 0) = 1)

C1_Witness ==
    /\ pc = "done"
    /\ Len(dates) = 2
    /\ Len(all_data) = 1
    /\ ErrorCount = 1

\* C2: a fetch that fails never keeps the others from running to completion
\* and being collected: at the end every fetch has finished and every fetch
\* that produced a table has it in all_data.
C2_FailureDoesNotBlockSiblings ==
    (Returned /\ Dispatched) =>
        \A f \in DOMAIN futures :
            /\ futures[f].state = "FINISHED"
            /\ (fetch_result(response[f], save_to_disk).kind = "DataFrame"
                   => Collected(f) # {})

C2_Witness ==
    /\ pc = "done"
    /\ \E f, g \in DOMAIN futures :
          /\ futures[f].result.kind = "exception"
          /\ f \in yielded
          /\ Succeeded(g)
          /\ Collected(g) # {}

\* C3: the returned dataset has rows only of fetches that succeeded, and as
\* many rows as the tables of the successful fetches have together.
C3_RowsOnlyFromSuccesses ==
    pc = "done" =>
        /\ ret.kind = "DataFrame"
        /\ Len(ret.rows) = SumRows({f \in DOMAIN futures : Succeeded(f)})
        /\ \A i \in DOMAIN ret.rows :
              /\ ret.rows[i][1] \in DOMAIN futures
              /\ Succeeded(ret.rows[i][1])
              /\ ret.rows[i][2] \in 1..futures[ret.rows[i][1]].result.rows

C3_Witness ==
    /\ pc = "done"
    /\ Len(ret.rows) = MaxRows
    /\ \E f, g \in DOMAIN futures :
          Failed(f) /\ Succeeded(g) /\ futures[g].result.rows = MaxRows

\* C4, as claimed: a run in which some dates fail returns, with the dataset,
\* a count or listing of the failed date keys.
C4_FailuresReturned ==
    (pc = "done" /\ \E f \in DOMAIN futures : Failed(f)) =>
        "failed" \in DOMAIN ret

\* C4, amended: the call returns the best-effort dataset alone; the failed
\* date keys are reported apart from the row data as ERROR log records, one
\* per failed fetch, each naming its date.
C4_FailuresLogged ==
    pc = "done" =>
        /\ DOMAIN ret = {"kind", "rows"}
        /\ ret.kind = "DataFrame"
        /\ \A i \in DOMAIN ret.rows : Succeeded(ret.rows[i][1])
        /\ \A d \in Dates :
              ErrorsFor(d) =
                  Cardinality({f \in DOMAIN futures : futures[f].date = d /\ Failed(f)})

C4_Witness ==
    /\ pc = "done"
    /\ ret.rows # <<>>
    /\ \E f \in DOMAIN futures :
          futures[f].result.kind = "exception" /\ ErrorsFor(futures[f].date) = 1

\* C5: when none of the caller's dates is in the enumerator's listing, the
\* request list is empty and the call returns an empty dataset at once:
\* nothing is dispatched, no outcome or error appears.
C5_NothingAvailableReturnsEmpty ==
    (pc \notin {"start", "raised"} /\ requested # None
        /\ Range(requested) \cap Range(available_dates) = {}) =>
        /\ pc = "done"
        /\ dates = <<>>
        /\ ~Dispatched
        /\ all_data = <<>>
        /\ ErrorCount = 0
        /\ ret = Frame(<<>>)

C5_Witness ==
    /\ pc = "done"
    /\ requested # None
    /\ Len(requested) = 2
    /\ available_dates # <<>>
    /\ Range(requested) \cap Range(available_dates) = {}
    /\ ret = Frame(<<>>)

\* C6: when every fetch of a non-empty batch fails, the call returns an empty
\* dataset and does not raise.
C6_AllFailedReturnsEmpty ==
    (Returned /\ Dispatched /\ \A f \in DOMAIN futures : ~Succeeded(f)) =>
        /\ pc = "done"
        /\ ret = Frame(<<>>)

C6_Witness ==
    /\ pc = "done"
    /\ Len(futures) = 2
    /\ \A f \in DOMAIN futures : Failed(f)
    /\ ret = Frame(<<>>)

\* C7, as claimed: save_to_disk does not change what is returned: each
\* fetch's outcome, and the rows of the returned dataset, are what the same
\* responses give with save_to_disk=False, also when the write to disk fails.
C7_SaveDoesNotAffectResult ==
    /\ \A f \in DOMAIN futures :
          futures[f].state = "FINISHED" =>
              futures[f].result = fetch_result(response[f], FALSE)
    /\ (pc = "done" =>
          Range(ret.rows) =
              {r \in (DOMAIN futures) \X (1..MaxRows) :
                  /\ fetch_result(response[r[1]], FALSE).kind = "DataFrame"
                  /\ r[2] <= fetch_result(response[r[1]], FALSE).rows})

\* C8: the call returns only after every fetch it dispatched has finished and
\* been handled, and once every fetch has finished it does return.
AllResolved ==
    /\ pc = "collect"
    /\ \A f \in DOMAIN futures : futures[f].state = "FINISHED"

C8_ReturnsAfterAllResolved ==
    /\ [](Returned =>
            \A f \in DOMAIN futures : futures[f].state = "FINISHED" /\ f \in yielded)
    /\ (AllResolved ~> pc = "done")

C8_Witness ==
    /\ pc = "done"
    /\ Len(futures) = 2
    /\ yielded = {1, 2}

\* C9, as claimed: one fetch per date key: no date is fetched twice, also
\* when the caller's list names a date twice.
C9_OneFetchPerDate ==
    \A f, g \in DOMAIN futures : f # g => futures[f].date # futures[g].date

\* C10: all_data is written only by the calling thread, in the loop body that
\* handles a yielded future; a pool thread changes its own future and nothing
\* the calling thread owns.
WorkerStep ==
    \E f \in DOMAIN futures : StartWorker(f) \/ download_and_process(f)

C10_OnlyCoordinatorWritesAllData ==
    [][/\ (all_data' # all_data => \E f \in DOMAIN futures : Collect(f))
       /\ (WorkerStep => UNCHANGED <<all_data, yielded, pc, ret, dates>>)]_vars

C10_Witness ==
    /\ Len(all_data) = 1
    /\ Cardinality(Running(futures)) = 1
    /\ pc = "collect"

====
